---- MODULE Spec2Model ----
(***************************************************************************)
(* Call-room signaling layer of the telemedicine server (the Socket.IO     *)
(* block of the server entry point): connections authenticate with a       *)
(* token, join and leave call rooms named call_<appointmentId>, relay       *)
(* WebRTC signals and chat to the room, and notify the room on disconnect.  *)
(* Every handler is synchronous JavaScript run to completion on the Node    *)
(* event loop, so each handler is one atomic action.                        *)
(***************************************************************************)
EXTENDS Naturals, FiniteSets, Sequences, TLC

MaxConns == 3
MaxRooms == 2
MaxSent == 2
MaxCandidates == 4
MaxMounts == 2

\* Sockets that may ever be opened, and appointment ids clients may name.
Conns == 1..MaxConns
AppointmentIds == 1..MaxRooms

\* Identities a valid token can carry (decoded.userId).
Users == {"u1", "u2"}
NoUser == "-"

\* decoded.role of each identity; a socket that never authenticated has none.
Roles == {"patient", "doctor"}
NoRole == "-"

\* The credential each client holds: odd sockets belong to u1, even ones to
\* u2, so a room can hold two users or two sockets of one user.
TokenOf(c) == IF c % 2 = 1 THEN "jwt:u1" ELSE "jwt:u2"

\* What a client may present at the handshake: nothing, a token jwt.verify
\* rejects, or its credential.
HandshakeTokens(c) == {"", "bad", TokenOf(c)}

\* Opaque signal payloads; "null" is the end-of-candidates candidate.
Payloads == {"null", "x"}

\* data.message of a call-message.
MessageTexts == {"hi"}

\* A field the client left out of its data (JavaScript undefined).
Undefined == "undefined"

\* An identity other than its own that a client may write into the data of
\* a signal (the VideoCall page writes none).
ClaimedIdentities(u) == Users \ {u}

\* The identity fields a client may put in a call-message: the ones the
\* VideoCall page builds for its user, the same with another user's id, and
\* a bare message with no senderName and no timestamp.
ChatData(u) ==
    {[senderId |-> u, senderName |-> "name:" \o u, timestamp |-> "t"]}
    \cup {[senderId |-> v, senderName |-> "name:" \o v, timestamp |-> "t"] : v \in Users \ {u}}
    \cup {[senderId |-> u, senderName |-> Undefined, timestamp |-> Undefined]}

SignalEvents == {"call-offer", "call-answer", "ice-candidate"}

\* Every event the connection handler registers a data-reading listener for.
InboundEvents == {"join-call", "leave-call", "call-message"} \cup SignalEvents

\* The appointments table: who the patient and the doctor of each
\* appointment are. Appointment 1 is between the two users that connect; the
\* others are u1's appointments with a doctor who is not u2.
Appointments ==
    [a \in AppointmentIds |->
        IF a = 1 THEN [patient |-> "u1", doctor |-> "u2"]
                 ELSE [patient |-> "u1", doctor |-> "u3"]]

VARIABLES
    status,            \* socket lifecycle: "new", "refused", "connected", "disconnected"
    userId,            \* socket.userId
    userRole,          \* socket.userRole
    userRooms,         \* io.sockets.adapter.rooms, restricted to the user_<id> rooms
    serverUp,          \* the server process is running
    rooms,             \* io.sockets.adapter.rooms, restricted to the call_<id> rooms
    currentCallRooms,  \* socket.currentCallRooms
    lastEvent,         \* the inbound event handled by the last step
    outbox,            \* the events that step emitted, one record per delivery
    unmounting,        \* web client: appointment of the VideoCall page that ran
                       \* endCall and has not yet run its effect cleanup (0: none)
    before,            \* history: rooms, tracked sets and pages as they were before
                       \* the last step
    watch,             \* which further history this behaviour records (fixed by Init)
    leftCount,         \* history: user-left deliveries per recipient for the watched
                       \* connection's latest membership of the watched room
    streak,            \* history: the watched connection's run of alternating
                       \* join-call/leave-call events on the watched room, begun on
                       \* the empty room, with no other connection acting on it
    joinedAs,          \* history: the role each member of the watched room was told
                       \* in the room-joined of its current membership
    intact,            \* history: no member has left the watched room since it was
                       \* last empty
    sent,              \* history: how many relayed events the watched connection
                       \* has sent to the watched room (counted up to MaxSent)
    inbox,             \* history: per connection, the numbers of those events in
                       \* the order they were delivered to it
    asked,             \* history: the call identifier the client named in the
                       \* join request handled by the last step (0: none)
    page,              \* web client: each socket's VideoCall page and its
                       \* RTCPeerConnection
    clientQ,           \* emitted events on their way to each client, oldest first
    ice,               \* web client: one page's handling of remote ICE candidates
    variant3           \* the other server build fed the same events: its call
                       \* rooms, what it emitted for the last event, and whether
                       \* the events so far were all well-behaved

vars == <<status, userId, userRole, userRooms, serverUp, rooms, currentCallRooms,
          lastEvent, outbox, unmounting, before, watch, leftCount, streak,
          joinedAs, intact, sent, inbox, asked, page, clientQ, ice, variant3>>

----------------------------------------------------------------------------
\* io.use middleware: jwt.verify accepts the tokens the login route signed.
TokenValid(tok) == tok \in {"jwt:" \o u : u \in Users}

\* decoded.userId
DecodedUserId(tok) == CHOOSE u \in Users : tok = "jwt:" \o u

\* decoded.role: u1 is a patient's account, u2 a doctor's.
DecodedRole(tok) == IF DecodedUserId(tok) = "u1" THEN "patient" ELSE "doctor"

\* Mutant: the connection handler run for a socket the middleware refused.
ConnectionHandlerRuns_Always(tok) == TRUE

\* next() without an error lets Socket.IO fire 'connection'; next(new Error)
\* closes the socket and the connection handler never runs for it.
ConnectionHandlerRuns(tok) == TokenValid(tok)

\* The user_<id> rooms: one per identity, and user_undefined.
PersonalRoomIds == Users \cup {NoUser}

\* `call_${data.appointmentId}`: the room is named by the appointment id alone.
RoomName(appointmentId) == appointmentId

CallRooms == {RoomName(a) : a \in AppointmentIds}

\* What `call_${data.appointmentId}` names when data has no appointmentId:
\* the one room call_undefined, which no appointment id names.
NoAppointmentId == MaxRooms + 1

\* Every room a join-call can name.
AllCallRooms == CallRooms \cup {RoomName(NoAppointmentId)}

\* Mutant: the member count read after the socket has joined.
NumClients_AfterJoin(r) == Cardinality(rooms[r]) + 1

\* clientsInRoom ? clientsInRoom.size : 0
NumClients(r) == Cardinality(rooms[r])

\* Mutant: every joiner told it is the initiator.
IsInitiator_Always(numClients) == TRUE

\* Mutant: the comparison off by one.
IsInitiator_OffByOne(numClients) == numClients <= 1

\* const isInitiator = numClients === 0
IsInitiator(numClients) == numClients = 0

\* One delivery of an emitted event. `via` is the room the emit was addressed
\* to (0 for socket.emit, which goes to the socket itself).
Delivery(ev, to, via, uid, init, payload) ==
    [ev |-> ev, to |-> to, via |-> via, userId |-> uid,
     isInitiator |-> init, payload |-> payload,
     userRole |-> NoRole, senderName |-> Undefined, timestamp |-> Undefined]

\* Mutant: the event echoed to the sender when the room has nobody else.
Recipients_EchoWhenAlone(c, r) == IF rooms[r] \ {c} = {} THEN {c} ELSE rooms[r] \ {c}

\* Mutant: io.to(roomName), which does not leave the sender out.
Recipients_WithSender(c, r) == rooms[r]

\* socket.to(roomName): every socket in the room but the sender.
Recipients(c, r) == rooms[r] \ {c}

\* Mutant: the payload of the event handled before goes out with this one.
Broadcast_Replay(c, r, ev, payload) ==
    {Delivery(ev, d, r, userId[c], FALSE, pl) :
        d \in Recipients(c, r), pl \in {payload, lastEvent.payload}}

\* Mutant: the emit missing.
Broadcast_Silent(c, r, ev, payload) == {}

\* socket.to(roomName).emit(ev, {..., userId | from: socket.userId})
Broadcast(c, r, ev, payload) ==
    {Delivery(ev, d, r, userId[c], FALSE, payload) : d \in Recipients(c, r)}

\* Mutant: io.to(roomName), which reaches the socket that has just joined.
UserJoined_ToWholeRoom(c, r) ==
    {[x EXCEPT !.userRole = userRole[c]] :
        x \in {Delivery("user-joined", d, r, userId[c], FALSE, "null") : d \in rooms[r] \cup {c}}}

\* socket.to(roomName).emit('user-joined', {userId: socket.userId, userRole: socket.userRole})
UserJoined(c, r) ==
    {[x EXCEPT !.userRole = userRole[c]] : x \in Broadcast(c, r, "user-joined", "null")}

\* Mutant: from taken from the client's data.
SignalFrom_Claimed(c, claimed) == claimed

\* from: socket.userId, whatever identity the client's data carries.
SignalFrom(c, claimed) == userId[c]

\* offer: data.offer | answer: data.answer | candidate: data.candidate
SignalPayload(p) == p

\* socket.to(roomName).emit('call-message', {message: data.message, senderId:
\* data.senderId, senderName: data.senderName, timestamp: data.timestamp})
ChatDeliveries(c, r, data, p) ==
    {[x EXCEPT !.senderName = data.senderName, !.timestamp = data.timestamp] :
        x \in {Delivery("call-message", d, r, data.senderId, FALSE, p) : d \in Recipients(c, r)}}

Event(type, c, r, payload) == [type |-> type, conn |-> c, room |-> r, payload |-> payload]

Snapshot ==
    [rooms |-> rooms, tracked |-> currentCallRooms, unmounting |-> unmounting,
     userRooms |-> userRooms]

NoInbox == [c \in Conns |-> <<>>]

\* The other build before any event: no call room has a member.
Variant3Start == [rooms |-> [r \in AllCallRooms |-> {}], outbox |-> {}, ok |-> TRUE]

\* A VideoCall page that is not mounted: no peer connection, nothing pending.
\*   mounts   how many times the page has been mounted on this socket
\*   sig      pc.signalingState
\*   timers   user-joined listeners waiting in their setTimeout
\*   answers  call-offer listeners that have built an answer and not yet
\*            emitted it
\*   told     the isInitiator of the room-joined of this mount ("?" before it)
\*   remote   whose description pc.remoteDescription is: the tag of the peer
\*            page that made it ("" for none)
\*   offers, answered, applied   how many offers this mount has emitted, how
\*            many answers it has emitted, how many answers it has applied
PageClosed ==
    [mounted |-> FALSE, mounts |-> 0, sig |-> "closed", timers |-> 0, answers |-> 0,
     told |-> "?", remote |-> "", offers |-> 0, answered |-> 0, applied |-> 0]

\* The candidate handling of a page whose peer connection has no remote
\* description yet.
\*   arrived  how many ice-candidate events have reached the page
\*   desc     pc.remoteDescription is set
\*   pending  pendingCandidatesRef.current
\*   added    the candidates passed to pc.addIceCandidate, in call order
\*   at       where the offer/answer listener is: "idle", "setting"
\*            (awaiting setRemoteDescription), "draining" (in the loop)
\*   next     the index of the pending candidate the loop adds next
\*   ignored  the arrivals that carried a null candidate
\* Candidates are named by their arrival number.
IceIdle ==
    [arrived |-> 0, desc |-> FALSE, pending |-> <<>>, added |-> <<>>,
     at |-> "idle", next |-> 1, ignored |-> {}]

NoStreak == [n |-> 0, members |-> {}, tracked |-> {}, reply |-> {}]

NoWatch == [kind |-> "none", conn |-> 0, room |-> 0]

InitProgram ==
    /\ status = [c \in Conns |-> "new"]
    /\ userId = [c \in Conns |-> NoUser]
    /\ userRole = [c \in Conns |-> NoRole]
    /\ userRooms = [u \in PersonalRoomIds |-> {}]
    /\ serverUp = TRUE
    /\ rooms = [r \in AllCallRooms |-> {}]
    /\ currentCallRooms = [c \in Conns |-> {}]
    /\ lastEvent = Event("none", 0, 0, "null")
    /\ outbox = {}
    /\ unmounting = [c \in Conns |-> 0]
    /\ before = Snapshot
    /\ leftCount = [c \in Conns |-> 0]
    /\ streak = NoStreak
    /\ joinedAs = [c \in Conns |-> "none"]
    /\ intact = TRUE
    /\ sent = 0
    /\ inbox = NoInbox
    /\ asked = 0
    /\ page = [c \in Conns |-> PageClosed]
    /\ clientQ = [c \in Conns |-> <<>>]
    /\ ice = IceIdle
    /\ variant3 = Variant3Start

Init == InitProgram /\ watch = NoWatch

----------------------------------------------------------------------------
\* Histories. They read the step's event and emissions and never feed back
\* into a handler.

\* user-left deliveries to d that this step emitted to the watched room on
\* behalf of the watched connection.
LeftNow(d) ==
    Cardinality({x \in outbox' : /\ x.ev = "user-left"
                                /\ x.to = d
                                /\ x.via = watch.room
                                /\ lastEvent'.conn = watch.conn})

\* Counted per recipient (saturating at 2) and reset when the watched
\* connection starts a new membership of the watched room.
LeftCountAfter ==
    IF watch.kind # "left" THEN leftCount
    ELSE IF watch.conn \in rooms'[watch.room] \ rooms[watch.room]
         THEN [d \in Conns |-> 0]
         ELSE [d \in Conns |->
                 IF leftCount[d] + LeftNow(d) > 2 THEN 2 ELSE leftCount[d] + LeftNow(d)]

\* The streak is 1 after the watched connection's join-call found the watched
\* room empty (the result of that join is kept), 2 after its leave-call, 3
\* after its next join-call, and so on alternating between 2 and 3. Any other
\* join-call or leave-call for the room, and any disconnect, ends it.
StreakAfter ==
    LET e == lastEvent'
        mine == e.conn = watch.conn /\ e.room = watch.room
    IN
    IF watch.kind # "rejoin" THEN streak
    ELSE IF e.type = "join-call" /\ mine
         THEN IF streak.n = 2 THEN [streak EXCEPT !.n = 3]
              ELSE IF rooms[watch.room] = {}
                   THEN [n |-> 1, members |-> rooms'[watch.room],
                         tracked |-> currentCallRooms'[watch.conn] \cap {watch.room},
                         reply |-> outbox']
                   ELSE NoStreak
         ELSE IF e.type = "leave-call" /\ mine
              THEN IF streak.n \in {1, 3} THEN [streak EXCEPT !.n = 2] ELSE NoStreak
              ELSE IF \/ e.type \in {"join-call", "leave-call"} /\ e.room = watch.room
                      \/ e.type \in {"disconnect", "disconnect-again"}
                   THEN NoStreak
                   ELSE streak

\* The isInitiator of the room-joined a connection got for joining the watched
\* room, forgotten when it is no longer a member.
JoinedAsAfter ==
    IF watch.kind # "roles" THEN joinedAs
    ELSE [d \in Conns |->
            IF \E x \in outbox' : x.ev = "room-joined" /\ x.to = d /\ lastEvent'.room = watch.room
            THEN IF \E x \in outbox' : x.ev = "room-joined" /\ x.to = d /\ x.isInitiator
                 THEN "initiator" ELSE "joiner"
            ELSE IF d \in rooms'[watch.room] THEN joinedAs[d] ELSE "none"]

IntactAfter ==
    IF watch.kind # "roles" THEN intact
    ELSE IF rooms'[watch.room] = {} THEN TRUE
         ELSE IF rooms[watch.room] \ rooms'[watch.room] # {} THEN FALSE
              ELSE intact

\* This step handled a relayed event of the watched connection for the
\* watched room, and the count has not reached MaxSent.
WatchedSend ==
    /\ watch.kind = "order"
    /\ lastEvent'.type \in SignalEvents \cup {"call-message"}
    /\ lastEvent'.conn = watch.conn
    /\ lastEvent'.room = watch.room
    /\ sent < MaxSent

SentAfter == IF WatchedSend THEN sent + 1 ELSE sent

\* What this step delivered to d, as message numbers: the number of the event
\* just received for a delivery carrying its payload, 0 for a delivery
\* carrying anything else.
DeliveredNumbers(d) ==
    LET N == {IF x.payload = lastEvent'.payload THEN sent + 1 ELSE 0 :
                x \in {y \in outbox' : y.to = d}}
    IN IF N = {} THEN <<>>
       ELSE IF N = {0} THEN <<0>>
       ELSE IF 0 \in N THEN <<0, sent + 1>>
       ELSE <<sent + 1>>

InboxAfter ==
    IF WatchedSend THEN [d \in Conns |-> inbox[d] \o DeliveredNumbers(d)] ELSE inbox

\* ---- The server build without the tracked set and the guards ----
\* What the comparison keeps once an event outside its scope has occurred.
Variant3Stopped == [rooms |-> [r \in AllCallRooms |-> {}], outbox |-> {}, ok |-> FALSE]

\* Mutant: user-joined sent with io.to, which reaches the joiner too.
Variant3JoinNotices_ToWholeRoom(c, r) ==
    {[x EXCEPT !.userRole = userRole[c]] :
        x \in {Delivery("user-joined", d, r, userId[c], FALSE, "null") :
                 d \in variant3.rooms[r] \cup {c}}}

\* if (numClients > 0) socket.to(roomName).emit('user-joined', ...), after
\* socket.join(roomName)
Variant3JoinNotices(c, r) ==
    {[x EXCEPT !.userRole = userRole[c]] :
        x \in {Delivery("user-joined", d, r, userId[c], FALSE, "null") :
                 d \in (variant3.rooms[r] \cup {c}) \ {c}}}

\* socket.on('join-call'): no duplicate guard; socket.join of a room the
\* socket is in changes nothing, but the events are emitted again.
Variant3Join(c, r) ==
    LET numClients == Cardinality(variant3.rooms[r]) IN
    [rooms |-> [variant3.rooms EXCEPT ![r] = @ \cup {c}],
     outbox |-> {Delivery("room-joined", c, 0, userId[c], numClients = 0, "null")}
                \cup (IF numClients > 0 THEN Variant3JoinNotices(c, r) ELSE {}),
     ok |-> TRUE]

\* socket.on('leave-call'): no membership guard.
Variant3Leave(c, r) ==
    [rooms |-> [variant3.rooms EXCEPT ![r] = @ \ {c}],
     outbox |-> {Delivery("user-left", d, r, userId[c], FALSE, "null") :
                   d \in variant3.rooms[r] \ {c}},
     ok |-> TRUE]

\* socket.on('call-offer' | 'call-answer' | 'ice-candidate')
Variant3Signal(c, r, ev, p) ==
    [variant3 EXCEPT !.outbox = {Delivery(ev, d, r, userId[c], FALSE, p) :
                                   d \in variant3.rooms[r] \ {c}}]

\* socket.on('disconnect') only logs; Socket.IO has taken the socket out of
\* its rooms.
Variant3Disconnect(c) ==
    [rooms |-> [r \in AllCallRooms |-> variant3.rooms[r] \ {c}], outbox |-> {}, ok |-> TRUE]

\* An event is outside the comparison when it is a join-call for a room the
\* socket is in, a leave-call for a room it is not in, a disconnect of a
\* socket still in a call room, or a call-message.
WellBehaved(e) ==
    /\ e.type = "join-call" /\ e.room \in AllCallRooms => e.conn \notin rooms[e.room]
    /\ e.type = "leave-call" /\ e.room \in AllCallRooms => e.conn \in rooms[e.room]
    /\ e.type = "disconnect" => \A r \in AllCallRooms : e.conn \notin rooms[r]
    /\ e.type # "call-message"

\* The other build's reaction to the event this step handled.
Variant3After ==
    LET e == lastEvent' IN
    IF watch.kind # "variant" THEN variant3
    ELSE IF ~variant3.ok \/ ~WellBehaved(e) THEN Variant3Stopped
    ELSE IF e.payload = Undefined THEN Variant3Start
    ELSE IF e.type = "join-call" THEN Variant3Join(e.conn, e.room)
    ELSE IF e.type = "leave-call" THEN Variant3Leave(e.conn, e.room)
    ELSE IF e.type \in SignalEvents THEN Variant3Signal(e.conn, e.room, e.type, e.payload)
    ELSE IF e.type = "disconnect" THEN Variant3Disconnect(e.conn)
    ELSE [variant3 EXCEPT !.outbox = {}]

\* The events an emit hands to the transport for connection d, in the order
\* the handler emits them.
EventOrder ==
    <<"room-joined", "user-joined", "user-left", "call-offer", "call-answer",
      "ice-candidate", "call-message">>

EmittedTo(d, i) == {x \in outbox' : x.to = d /\ x.ev = EventOrder[i]}

RECURSIVE ArrivalsFrom(_, _)
ArrivalsFrom(d, i) ==
    IF i > Len(EventOrder) THEN <<>>
    ELSE (IF EmittedTo(d, i) = {} THEN <<>>
          ELSE <<[ev |-> EventOrder[i],
                  isInitiator |-> \E x \in EmittedTo(d, i) : x.isInitiator,
                  payload |-> (CHOOSE x \in EmittedTo(d, i) : TRUE).payload]>>)
         \o ArrivalsFrom(d, i + 1)

ClientQAfter ==
    IF watch.kind # "call" THEN clientQ
    ELSE [d \in Conns |-> clientQ[d] \o ArrivalsFrom(d, 1)]

ObserveAsked(k) ==
    /\ asked' = k
    /\ variant3' = Variant3After
    /\ clientQ' = ClientQAfter
    /\ ice' = ice
    /\ before' = Snapshot
    /\ watch' = watch
    /\ leftCount' = LeftCountAfter
    /\ streak' = StreakAfter
    /\ joinedAs' = JoinedAsAfter
    /\ intact' = IntactAfter
    /\ sent' = SentAfter
    /\ inbox' = InboxAfter

Observe == ObserveAsked(0)

----------------------------------------------------------------------------
\* A client opens a socket with a handshake token. The middleware refuses it
\* or sets socket.userId; the connection handler then creates the tracked set.
Connect(c, tok) ==
    /\ serverUp
    /\ status[c] = "new"
    /\ IF TokenValid(tok)
       THEN /\ status' = [status EXCEPT ![c] = "connected"]
            /\ userId' = [userId EXCEPT ![c] = DecodedUserId(tok)]
            /\ userRole' = [userRole EXCEPT ![c] = DecodedRole(tok)]
       ELSE /\ status' = [status EXCEPT ![c] = "refused"]
            /\ UNCHANGED <<userId, userRole>>
    /\ userRooms' = IF ConnectionHandlerRuns(tok)
                    THEN [userRooms EXCEPT ![userId'[c]] = @ \cup {c}]
                    ELSE userRooms
    /\ lastEvent' = Event("connect", c, 0, "null")
    /\ outbox' = {}
    /\ UNCHANGED <<serverUp, rooms, currentCallRooms, unmounting, page>>
    /\ Observe

\* Mutant: the duplicate-join guard missing.
JoinIsDuplicate_Never(c, r) == FALSE

\* if (socket.rooms.has(roomName)) return;
JoinIsDuplicate(c, r) == c \in rooms[r]

\* The body of socket.on('join-call') for data.appointmentId = a, sent by a
\* client that means the call k.
JoinCallHandler(c, a, k) ==
    LET r == RoomName(a) IN
    /\ serverUp
    /\ status[c] = "connected"
    /\ lastEvent' = Event("join-call", c, r, "null")
    /\ IF JoinIsDuplicate(c, r)
       THEN /\ outbox' = {}
            /\ UNCHANGED <<rooms, currentCallRooms>>
       ELSE LET numClients == NumClients(r) IN
            /\ rooms' = [rooms EXCEPT ![r] = @ \cup {c}]
            /\ currentCallRooms' = [currentCallRooms EXCEPT ![c] = @ \cup {r}]
            /\ outbox' =
                 {Delivery("room-joined", c, 0, userId[c], IsInitiator(numClients), "null")}
                 \cup (IF numClients > 0 THEN UserJoined(c, r) ELSE {})
    /\ UNCHANGED <<status, userId, userRole, userRooms, serverUp, unmounting>>
    /\ ObserveAsked(k)

\* socket.on('join-call'), sent as the VideoCall page sends it:
\* {appointmentId, userId}.
JoinCall(c, a) ==
    /\ JoinCallHandler(c, a, a)
    /\ UNCHANGED page

\* Mutant: the membership guard of leave-call missing.
LeaveIsSpurious_Never(c, r) == FALSE

\* if (!socket.rooms.has(roomName)) return;
LeaveIsSpurious(c, r) == c \notin rooms[r]

\* Mutant: socket.leave missing.
MembersAfterLeave_Kept(members, c) == members

\* socket.leave(roomName)
MembersAfterLeave(members, c) == members \ {c}

\* Mutant: the room not deleted from the tracked set.
TrackedAfterLeave_Kept(tracked, r) == tracked

\* socket.currentCallRooms.delete(roomName)
TrackedAfterLeave(tracked, r) == tracked \ {r}

\* The body of socket.on('leave-call').
LeaveCallHandler(c, r) ==
    /\ serverUp
    /\ status[c] = "connected"
    /\ lastEvent' = Event("leave-call", c, r, "null")
    /\ IF LeaveIsSpurious(c, r)
       THEN /\ outbox' = {}
            /\ UNCHANGED <<rooms, currentCallRooms>>
       ELSE /\ rooms' = [rooms EXCEPT ![r] = MembersAfterLeave(@, c)]
            /\ currentCallRooms' = [currentCallRooms EXCEPT ![c] = TrackedAfterLeave(@, r)]
            /\ outbox' = Broadcast(c, r, "user-left", "null")
    /\ UNCHANGED <<status, userId, userRole, userRooms, serverUp>>
    /\ Observe

\* socket.on('leave-call')
LeaveCall(c, a) ==
    /\ LeaveCallHandler(c, RoomName(a))
    /\ UNCHANGED <<unmounting, page>>

\* socket.on('call-offer' | 'call-answer' | 'ice-candidate'): the payload is
\* forwarded to the room with from: socket.userId; nothing else is looked at.
\* `claimed` is an identity the client wrote into its data.
SignalHandler(c, a, ev, p, claimed) ==
    LET r == RoomName(a) IN
    /\ serverUp
    /\ status[c] = "connected"
    /\ lastEvent' = Event(ev, c, r, p)
    /\ outbox' = {[x EXCEPT !.userId = SignalFrom(c, claimed)] :
                    x \in Broadcast(c, r, ev, SignalPayload(p))}
    /\ UNCHANGED <<status, userId, userRole, userRooms, serverUp, rooms,
                   currentCallRooms, unmounting>>
    /\ Observe

Signal(c, a, ev, p, claimed) ==
    /\ SignalHandler(c, a, ev, p, claimed)
    /\ UNCHANGED page

\* socket.on('call-message'): message, senderId, senderName and timestamp are
\* copied from the client's data; senderId stands where the signals carry from.
CallMessage(c, a, data, p) ==
    LET r == RoomName(a) IN
    /\ serverUp
    /\ status[c] = "connected"
    /\ lastEvent' = Event("call-message", c, r, p)
    /\ outbox' = ChatDeliveries(c, r, data, p)
    /\ UNCHANGED <<status, userId, userRole, userRooms, serverUp, rooms,
                   currentCallRooms, unmounting, page>>
    /\ Observe

\* Mutant: the tracked set not cleared.
TrackedAfterDisconnect_Kept(tracked) == tracked

\* socket.currentCallRooms.clear()
TrackedAfterDisconnect(tracked) == {}

\* Mutant: only one of the tracked rooms notified.
DisconnectNotices_OneRoom(c) ==
    IF currentCallRooms[c] = {} THEN {}
    ELSE Broadcast(c, CHOOSE r \in currentCallRooms[c] : TRUE, "user-left", "null")

\* socket.currentCallRooms.forEach(roomName => socket.to(roomName).emit('user-left', ...))
DisconnectNotices(c) ==
    UNION {Broadcast(c, r, "user-left", "null") : r \in currentCallRooms[c]}

\* Socket.IO's leaveAll, which runs before 'disconnect' is fired.
RoomsAfterClose(c) == [r \in AllCallRooms |-> rooms[r] \ {c}]

\* The same leaveAll, for the user_<id> rooms.
UserRoomsAfterClose(c) == [u \in PersonalRoomIds |-> userRooms[u] \ {c}]

\* The transport closes: the socket is taken out of all its rooms, then the
\* 'disconnect' handler notifies every tracked room and clears the tracked set.
Disconnect(c) ==
    /\ serverUp
    /\ status[c] = "connected"
    /\ status' = [status EXCEPT ![c] = "disconnected"]
    /\ rooms' = RoomsAfterClose(c)
    /\ userRooms' = UserRoomsAfterClose(c)
    /\ lastEvent' = Event("disconnect", c, 0, "null")
    /\ outbox' = DisconnectNotices(c)
    /\ currentCallRooms' = [currentCallRooms EXCEPT ![c] = TrackedAfterDisconnect(@)]
    /\ UNCHANGED <<userId, userRole, serverUp, unmounting, page>>
    /\ Observe

\* The 'disconnect' handler run once more for a socket already disconnected.
DisconnectAgain(c) ==
    /\ serverUp
    /\ status[c] = "disconnected"
    /\ lastEvent' = Event("disconnect-again", c, 0, "null")
    /\ outbox' = DisconnectNotices(c)
    /\ currentCallRooms' = [currentCallRooms EXCEPT ![c] = TrackedAfterDisconnect(@)]
    /\ UNCHANGED <<status, userId, userRole, userRooms, serverUp, rooms, unmounting, page>>
    /\ Observe

\* An inbound event that arrives with no data: the listener's first statement
\* reads data.appointmentId of undefined and throws a TypeError. No listener
\* has a try/catch and the process installs no uncaughtException handler, so
\* the server process exits; with it go all sockets, rooms and tracked sets,
\* and no 'disconnect' listener runs.
EventWithoutData(c, ev) ==
    /\ serverUp
    /\ status[c] = "connected"
    /\ serverUp' = FALSE
    /\ status' = [d \in Conns |-> IF status[d] = "connected" THEN "disconnected" ELSE status[d]]
    /\ rooms' = [r \in AllCallRooms |-> {}]
    /\ userRooms' = [u \in PersonalRoomIds |-> {}]
    /\ currentCallRooms' = [d \in Conns |-> {}]
    /\ lastEvent' = Event(ev, c, 0, Undefined)
    /\ outbox' = {}
    /\ UNCHANGED <<userId, userRole, unmounting, page>>
    /\ Observe

Next ==
    \/ \E c \in Conns : \E tok \in HandshakeTokens(c) : Connect(c, tok)
    \/ \E c \in Conns, a \in AppointmentIds : JoinCall(c, a)
    \/ \E c \in Conns, a \in AppointmentIds : LeaveCall(c, a)
    \/ \E c \in Conns, a \in AppointmentIds, ev \in SignalEvents, p \in Payloads :
          \E u \in ClaimedIdentities(userId[c]) : Signal(c, a, ev, p, u)
    \/ \E c \in Conns, a \in AppointmentIds, p \in MessageTexts :
          \E data \in ChatData(userId[c]) : CallMessage(c, a, data, p)
    \/ \E c \in Conns, ev \in InboundEvents : EventWithoutData(c, ev)
    \/ \E c \in Conns : Disconnect(c)
    \/ \E c \in Conns : DisconnectAgain(c)

Spec == Init /\ [][Next]_vars

\* The same server, recording the roles handed out in one room.
InitRoles ==
    /\ InitProgram
    /\ watch \in {[kind |-> "roles", conn |-> 0, room |-> r] : r \in CallRooms}

SpecRoles == InitRoles /\ [][Next]_vars

\* The same server, counting the user-left deliveries of one connection's
\* memberships of one room.
InitLeft ==
    /\ InitProgram
    /\ watch \in {[kind |-> "left", conn |-> c, room |-> r] : c \in Conns, r \in CallRooms}

SpecLeft == InitLeft /\ [][Next]_vars

\* The same server, recording one connection's joins and leaves of one room.
InitRejoin ==
    /\ InitProgram
    /\ watch \in {[kind |-> "rejoin", conn |-> c, room |-> r] : c \in Conns, r \in CallRooms}

SpecRejoin == InitRejoin /\ [][Next]_vars

\* The same server, recording the order in which socket 1's relayed events
\* for room 1 reach the other connections. The relay handlers treat all
\* sockets and all rooms alike, so one sender and one room are watched; its
\* recipients are a socket of the other user and a socket of its own user.
InitOrder ==
    /\ InitProgram
    /\ watch = [kind |-> "order", conn |-> 1, room |-> RoomName(1)]

SpecOrder == InitOrder /\ [][Next]_vars

\* The same server, with the other build fed the same events.
InitVariant ==
    /\ InitProgram
    /\ watch = [kind |-> "variant", conn |-> 0, room |-> 0]

SpecVariant == InitVariant /\ [][Next]_vars

----------------------------------------------------------------------------
\* The web client's VideoCall page. endCall emits leave-call and navigates
\* away; the navigation unmounts the page, whose effect cleanup emits
\* leave-call for the same appointment again. In between the page emits no
\* join-call or leave-call of its own.

PageIdle(c) == unmounting[c] = 0

\* VideoCall.endCall
EndCall(c, a) ==
    /\ PageIdle(c)
    /\ LeaveCallHandler(c, RoomName(a))
    /\ unmounting' = [unmounting EXCEPT ![c] = a]
    /\ UNCHANGED page

\* VideoCall's WebRTC effect cleanup, after endCall
UnmountCleanup(c) ==
    /\ ~PageIdle(c)
    /\ LeaveCallHandler(c, RoomName(unmounting[c]))
    /\ unmounting' = [unmounting EXCEPT ![c] = 0]
    /\ UNCHANGED page

NextClient ==
    \/ \E c \in Conns : \E tok \in HandshakeTokens(c) : Connect(c, tok)
    \/ \E c \in Conns, a \in AppointmentIds : PageIdle(c) /\ JoinCall(c, a)
    \/ \E c \in Conns, a \in AppointmentIds : PageIdle(c) /\ LeaveCall(c, a)
    \/ \E c \in Conns, a \in AppointmentIds, ev \in SignalEvents, p \in Payloads :
          \E u \in ClaimedIdentities(userId[c]) : Signal(c, a, ev, p, u)
    \/ \E c \in Conns, a \in AppointmentIds, p \in MessageTexts :
          \E data \in ChatData(userId[c]) : CallMessage(c, a, data, p)
    \/ \E c \in Conns, ev \in InboundEvents : EventWithoutData(c, ev)
    \/ \E c \in Conns, a \in AppointmentIds : EndCall(c, a)
    \/ \E c \in Conns : UnmountCleanup(c)
    \/ \E c \in Conns : Disconnect(c)
    \/ \E c \in Conns : DisconnectAgain(c)

SpecClient == Init /\ [][NextClient]_vars

----------------------------------------------------------------------------
\* The web client's SocketContext helpers. joinCall and leaveCall emit
\* {callId}: the data has no appointmentId, so the server builds the room
\* name from undefined. sendSignal emits 'call-signal', an event the server
\* registers no listener for.

\* SocketContext.joinCall(callId)
ContextJoinCall(c, k) ==
    /\ JoinCallHandler(c, NoAppointmentId, k)
    /\ UNCHANGED page

\* SocketContext.leaveCall(callId)
ContextLeaveCall(c, k) ==
    /\ LeaveCallHandler(c, RoomName(NoAppointmentId))
    /\ UNCHANGED <<unmounting, page>>

\* SocketContext.sendSignal(callId, signal)
ContextSendSignal(c, k) ==
    /\ serverUp
    /\ status[c] = "connected"
    /\ lastEvent' = Event("call-signal", c, 0, "x")
    /\ outbox' = {}
    /\ UNCHANGED <<status, userId, userRole, userRooms, serverUp, rooms,
                   currentCallRooms, unmounting, page>>
    /\ Observe

\* Clients that join through the VideoCall page and clients that join
\* through the SocketContext helpers, on one server.
NextContext ==
    \/ \E c \in Conns : Connect(c, TokenOf(c))
    \/ \E c \in Conns, a \in AppointmentIds : JoinCall(c, a)
    \/ \E c \in Conns, a \in AppointmentIds : LeaveCall(c, a)
    \/ \E c \in Conns, k \in AppointmentIds : ContextJoinCall(c, k)
    \/ \E c \in Conns, k \in AppointmentIds : ContextLeaveCall(c, k)
    \/ \E c \in Conns, k \in AppointmentIds : ContextSendSignal(c, k)
    \/ \E c \in Conns : Disconnect(c)

SpecContext == Init /\ [][NextContext]_vars

----------------------------------------------------------------------------
\* The VideoCall page's handling of remote ICE candidates around the moment
\* its peer connection gets a remote description. The call-offer and the
\* call-answer listener do the same: await pc.setRemoteDescription, then add
\* the queued candidates one by one, awaiting each pc.addIceCandidate, then
\* empty the queue. Every await lets the event loop run other listeners.

allButIce ==
    <<status, userId, userRole, userRooms, serverUp, rooms, currentCallRooms,
      lastEvent, outbox, unmounting, before, watch, leftCount, streak,
      joinedAs, intact, sent, inbox, asked, page, clientQ, variant3>>

\* socket.on('ice-candidate')
ReceiveCandidate(isNull) ==
    LET n == ice.arrived + 1 IN
    /\ ice.arrived < MaxCandidates
    /\ ice' = IF isNull
              THEN [ice EXCEPT !.arrived = n, !.ignored = @ \cup {n}]
              ELSE IF ice.desc
                   THEN [ice EXCEPT !.arrived = n, !.added = Append(@, n)]
                   ELSE [ice EXCEPT !.arrived = n, !.pending = Append(@, n)]
    /\ UNCHANGED allButIce

\* socket.on('call-offer' | 'call-answer') up to its first await:
\* await pc.setRemoteDescription(...)
ReceiveDescription ==
    /\ ice.at = "idle"
    /\ ~ice.desc
    /\ ice' = [ice EXCEPT !.at = "setting"]
    /\ UNCHANGED allButIce

\* setRemoteDescription resolves and the listener goes on: with a non-empty
\* queue it enters the loop and calls addIceCandidate for the first queued
\* candidate; with an empty one it skips the block.
AfterDescriptionSet(i) ==
    IF Len(i.pending) > 0
    THEN [i EXCEPT !.desc = TRUE, !.at = "draining", !.next = 2,
                   !.added = Append(@, i.pending[1])]
    ELSE [i EXCEPT !.desc = TRUE, !.at = "idle"]

DescriptionSet ==
    /\ ice.at = "setting"
    /\ ice' = AfterDescriptionSet(ice)
    /\ UNCHANGED allButIce

\* An awaited addIceCandidate resolves: the loop adds the next queued
\* candidate, or ends and runs pendingCandidatesRef.current = [].
DrainNext ==
    /\ ice.at = "draining"
    /\ ice' = IF ice.next <= Len(ice.pending)
              THEN [ice EXCEPT !.next = @ + 1, !.added = Append(@, ice.pending[ice.next])]
              ELSE [ice EXCEPT !.at = "idle", !.next = 1, !.pending = <<>>]
    /\ UNCHANGED allButIce

NextIce ==
    \/ \E isNull \in BOOLEAN : ReceiveCandidate(isNull)
    \/ ReceiveDescription
    \/ DescriptionSet
    \/ DrainNext

SpecIce == Init /\ [][NextIce]_vars

----------------------------------------------------------------------------
\* Two clients on the VideoCall page of one appointment, with the server in
\* between. Events the server emits travel to the client in order and are
\* handled by the page's listeners when they arrive; a page that is not
\* mounted has no listeners. The peer connection follows the WebRTC
\* signaling states: setLocalDescription(offer) gives have-local-offer,
\* applying the answer gives stable, applying an offer gives
\* have-remote-offer and setting the answer gives stable again.

CallParties == {1, 2}
CallAppointment == 1

\* The description a page creates names the page (socket and mount).
PageTag(c) == "page" \o ToString(c) \o "." \o ToString(page[c].mounts)

pageFrame ==
    <<status, userId, userRole, userRooms, serverUp, rooms, currentCallRooms,
      lastEvent, outbox, unmounting, before, watch, leftCount, streak,
      joinedAs, intact, sent, inbox, asked, ice, variant3>>

\* The WebRTC effect runs: a new RTCPeerConnection, the listeners, and
\* socket.emit('join-call', {appointmentId, userId}).
Mount(c) ==
    /\ ~page[c].mounted
    /\ page[c].mounts < MaxMounts
    /\ page' = [page EXCEPT ![c] =
                  [PageClosed EXCEPT !.mounted = TRUE, !.mounts = page[c].mounts + 1,
                                     !.sig = "stable"]]
    /\ JoinCallHandler(c, CallAppointment, CallAppointment)

\* The effect cleanup: socket.emit('leave-call'), pc.close(), socket.off of
\* every listener. Listeners still waiting on the closed peer connection
\* fail when they go on and emit nothing.
Unmount(c) ==
    /\ page[c].mounted
    /\ page' = [page EXCEPT ![c] = [PageClosed EXCEPT !.mounts = page[c].mounts]]
    /\ LeaveCallHandler(c, RoomName(CallAppointment))
    /\ UNCHANGED unmounting

\* What a listener of the page does with an arrived event, up to its emit.
AfterArrival(pg, m) ==
    IF ~pg.mounted THEN pg
    ELSE IF m.ev = "room-joined" THEN [pg EXCEPT !.told = IF m.isInitiator THEN "yes" ELSE "no"]
    ELSE IF m.ev = "user-joined" THEN [pg EXCEPT !.timers = @ + 1]
    ELSE IF m.ev = "call-offer" /\ pg.sig = "stable"
         THEN [pg EXCEPT !.remote = m.payload, !.sig = "have-remote-offer",
                         !.answers = @ + 1]
    ELSE IF m.ev = "call-answer" /\ pg.sig = "have-local-offer"
         THEN [pg EXCEPT !.remote = m.payload, !.sig = "stable", !.applied = @ + 1]
    ELSE pg

\* The oldest event on its way to client c arrives.
Arrive(c) ==
    /\ clientQ[c] # <<>>
    /\ page' = [page EXCEPT ![c] = AfterArrival(@, Head(clientQ[c]))]
    /\ clientQ' = [clientQ EXCEPT ![c] = Tail(@)]
    /\ UNCHANGED pageFrame

\* A user-joined listener is past its setTimeout.
OfferDue(pg) == pg.timers > 0

\* The user-joined listener goes on after its delay: createOffer,
\* setLocalDescription, socket.emit('call-offer', {offer, appointmentId}).
\* setLocalDescription of an offer is refused while a remote offer is
\* being answered; the listener then reports the error and emits nothing.
SendOffer(c) ==
    /\ page[c].mounted
    /\ OfferDue(page[c])
    /\ IF page[c].sig = "have-remote-offer"
       THEN /\ page' = [page EXCEPT ![c].timers = @ - 1]
            /\ UNCHANGED clientQ
            /\ UNCHANGED pageFrame
       ELSE /\ page' = [page EXCEPT ![c].timers = @ - 1,
                                    ![c].sig = "have-local-offer",
                                    ![c].offers = @ + 1]
            /\ SignalHandler(c, CallAppointment, "call-offer", PageTag(c), userId[c])

\* The call-offer listener goes on after createAnswer and
\* setLocalDescription: socket.emit('call-answer', {answer, appointmentId}).
SendAnswer(c) ==
    /\ page[c].mounted
    /\ page[c].answers > 0
    /\ page' = [page EXCEPT ![c].answers = @ - 1, ![c].sig = "stable",
                            ![c].answered = @ + 1]
    /\ SignalHandler(c, CallAppointment, "call-answer", PageTag(c), userId[c])

InitCall ==
    /\ InitProgram
    /\ watch = [kind |-> "call", conn |-> 0, room |-> RoomName(CallAppointment)]

NextCall ==
    \/ \E c \in CallParties : Connect(c, TokenOf(c))
    \/ \E c \in CallParties : Mount(c)
    \/ \E c \in CallParties : Unmount(c)
    \/ \E c \in CallParties : Arrive(c)
    \/ \E c \in CallParties : SendOffer(c)
    \/ \E c \in CallParties : SendAnswer(c)

SpecCall == InitCall /\ [][NextCall]_vars
----------------------------------------------------------------------------
\* Shorthands for reading the last step.

Handled(type, c, r) == lastEvent.type = type /\ lastEvent.conn = c /\ lastEvent.room = r

DeliveredTo(d, ev) == {x \in outbox : x.to = d /\ x.ev = ev}

RelayEvents == SignalEvents \cup {"call-message"}

----------------------------------------------------------------------------
\* C1 (as claimed): a call-offer, call-answer or ice-candidate whose sender is
\* not a member of the target room is delivered to no connection.
C1_NonMemberSignalDropped ==
    \A c \in Conns, r \in CallRooms :
        (lastEvent.type \in SignalEvents /\ lastEvent.conn = c /\ lastEvent.room = r
            /\ c \notin rooms[r])
        => outbox = {}

\* C2: a join-call that admits a connection answers room-joined with
\* isInitiator = true when the room had no members and with isInitiator =
\* false when it had at least one.
C2_InitiatorIffRoomWasEmpty ==
    \A c \in Conns, r \in CallRooms :
        (Handled("join-call", c, r) /\ c \notin before.rooms[r])
        => {x \in outbox : x.ev = "room-joined"}
             = {Delivery("room-joined", c, 0, userId[c], before.rooms[r] = {}, "null")}

C2_Witness ==
    \E c \in Conns, r \in CallRooms :
        /\ Handled("join-call", c, r)
        /\ c \notin before.rooms[r]
        /\ before.rooms[r] # {}
        /\ \E x \in outbox : x.ev = "room-joined" /\ x.to = c /\ ~x.isInitiator

\* C3 (as claimed): no call room ever has more than two members.
C3_AtMostTwoMembers ==
    \A r \in CallRooms : Cardinality(rooms[r]) <= 2

\* C4 (as claimed): when one of the two members of a full room disconnects,
\* the room is left with exactly the other member, who receives exactly one
\* user-left in that step, carrying the departed connection's userId.
C4_ExactlyOneUserLeft ==
    \A a, b \in Conns, r \in CallRooms :
        (Handled("disconnect", b, 0) /\ a # b /\ before.rooms[r] = {a, b})
        => /\ rooms[r] = {a}
           /\ Cardinality(DeliveredTo(a, "user-left")) = 1
           /\ \A x \in DeliveredTo(a, "user-left") : x.userId = userId[b]

\* The rooms two connections were both members of before the last step.
SharedBefore(a, b) == {r \in CallRooms : {a, b} \subseteq before.rooms[r]}

\* C4 (amended): when one of the two members of a full room disconnects, then
\* in the step that processes the disconnect the room is left with exactly the
\* other member, and that member receives one user-left carrying the departed
\* connection's userId for each room the two shared, so exactly one when
\* this room is the only one they share.
C4_OneUserLeftPerSharedRoom ==
    \A a, b \in Conns, r \in CallRooms :
        (Handled("disconnect", b, 0) /\ a # b /\ before.rooms[r] = {a, b})
        => /\ rooms[r] = {a}
           /\ {x.via : x \in DeliveredTo(a, "user-left")} = SharedBefore(a, b)
           /\ Cardinality(DeliveredTo(a, "user-left")) = Cardinality(SharedBefore(a, b))
           /\ \A x \in DeliveredTo(a, "user-left") : x.userId = userId[b]
           /\ (SharedBefore(a, b) = {r} => Cardinality(DeliveredTo(a, "user-left")) = 1)

C4_Witness ==
    \E a, b \in Conns, r \in CallRooms :
        /\ Handled("disconnect", b, 0)
        /\ a # b
        /\ before.rooms[r] = {a, b}
        /\ SharedBefore(a, b) = {r}
        /\ userId[a] # userId[b]
        /\ DeliveredTo(a, "user-left") # {}

\* C5: a signal or chat message sent by a member of a room is delivered
\* exactly once to each other member of the room and to nobody else, with the
\* sender's event name and payload, and (for the three signals, so for
\* call-offer) with from equal to the sender's userId.
C5_RelayToOtherMembersOnly ==
    \A c \in Conns, r \in CallRooms :
        (lastEvent.type \in RelayEvents /\ lastEvent.conn = c /\ lastEvent.room = r
            /\ c \in rooms[r])
        => /\ {x.to : x \in outbox} = rooms[r] \ {c}
           /\ \A d \in rooms[r] \ {c} : Cardinality({x \in outbox : x.to = d}) = 1
           /\ \A x \in outbox :
                 /\ x.ev = lastEvent.type
                 /\ x.payload = lastEvent.payload
                 /\ x.via = r
                 /\ (x.ev \in SignalEvents => x.userId = userId[c])

C5_Witness ==
    \E c, d, o \in Conns, r \in CallRooms :
        /\ Handled("call-offer", c, r)
        /\ lastEvent.payload = "x"
        /\ rooms[r] = {c, d} /\ c # d
        /\ status[o] = "connected" /\ o \notin rooms[r]
        /\ outbox = {Delivery("call-offer", d, r, userId[c], FALSE, "x")}

\* C6: a join-call from a connection already in the target room changes no
\* room membership and no tracked room set, and emits nothing.
C6_DuplicateJoinIsNoOp ==
    \A c \in Conns, r \in CallRooms :
        (Handled("join-call", c, r) /\ c \in before.rooms[r])
        => /\ rooms = before.rooms
           /\ currentCallRooms = before.tracked
           /\ outbox = {}

C6_Witness ==
    \E c, d \in Conns, r \in CallRooms :
        /\ Handled("join-call", c, r)
        /\ c # d
        /\ {c, d} \subseteq before.rooms[r]

\* C7: a leave-call from a connection that is not a member of the target room
\* changes no membership and emits nothing; the leave-call of the web client's
\* page cleanup, which follows the leave-call of endCall, is such a one, so
\* the two together give the peer at most the one user-left of the first.
C7_SpuriousLeaveIsNoOp ==
    /\ \A c \in Conns, r \in CallRooms :
          (Handled("leave-call", c, r) /\ c \notin before.rooms[r])
          => /\ rooms = before.rooms
             /\ currentCallRooms = before.tracked
             /\ outbox = {}
    /\ \A c \in Conns :
          (before.unmounting[c] # 0 /\ unmounting[c] = 0)
          => /\ lastEvent.type = "leave-call" /\ lastEvent.conn = c
             /\ lastEvent.room = RoomName(before.unmounting[c])
             /\ rooms = before.rooms
             /\ currentCallRooms = before.tracked
             /\ outbox = {}

C7_Witness ==
    \E c, d \in Conns :
        /\ before.unmounting[c] # 0
        /\ unmounting[c] = 0
        /\ c # d
        /\ d \in rooms[RoomName(before.unmounting[c])]
        /\ Handled("leave-call", c, RoomName(before.unmounting[c]))

\* C8: running the disconnect handler again for a socket already disconnected
\* changes nothing and emits nothing, and no connection receives more than one
\* user-left for one membership of a connection in a room, also when the
\* membership was ended by leave-call before the disconnect.
C8_DisconnectIdempotent ==
    /\ \A d \in Conns : leftCount[d] <= 1
    /\ lastEvent.type = "disconnect-again"
       => /\ rooms = before.rooms
          /\ currentCallRooms = before.tracked
          /\ outbox = {}

C8_Witness ==
    /\ watch.kind = "left"
    /\ Handled("disconnect-again", watch.conn, 0)
    /\ \E d \in Conns : leftCount[d] = 1

\* C9: join-call, leave-call, join-call by one connection on a room nobody
\* else acts on ends as its first join did: the room has exactly that member,
\* the connection tracks the room, and it gets the same room-joined, with
\* isInitiator = true.
C9_RejoinLikeFirstJoin ==
    (/\ watch.kind = "rejoin"
     /\ streak.n = 3
     /\ Handled("join-call", watch.conn, watch.room))
    => /\ rooms[watch.room] = {watch.conn}
       /\ rooms[watch.room] = streak.members
       /\ currentCallRooms[watch.conn] \cap {watch.room} = streak.tracked
       /\ currentCallRooms[watch.conn] = {r \in CallRooms : watch.conn \in rooms[r]}
       /\ outbox = streak.reply
       /\ outbox = {Delivery("room-joined", watch.conn, 0, userId[watch.conn], TRUE, "null")}

C9_Witness ==
    /\ watch.kind = "rejoin"
    /\ streak.n = 3
    /\ Handled("join-call", watch.conn, watch.room)
    /\ currentCallRooms[watch.conn] = {watch.room}

\* C10: when two distinct connections join a room that was empty, in either
\* order and with nobody leaving it, exactly one of the two was answered
\* isInitiator = true.
C10_ExactlyOneInitiator ==
    \A c, d \in Conns :
        (/\ watch.kind = "roles"
         /\ intact
         /\ c # d
         /\ rooms[watch.room] = {c, d})
        => /\ {joinedAs[c], joinedAs[d]} = {"initiator", "joiner"}

C10_Witness ==
    \E c, d \in Conns :
        /\ watch.kind = "roles"
        /\ intact
        /\ c # d
        /\ rooms[watch.room] = {c, d}
        /\ joinedAs[d] = "initiator"
        /\ Handled("join-call", c, watch.room)

\* C11: a connection whose handshake carried no token or a token that fails
\* verification is refused before the connection handler runs: it is in no
\* room, personal or call, it has no identity and tracks no room, no event
\* of its is ever handled, and nothing is emitted for it or to it.
C11_RefusedConnectionInert ==
    \A c \in Conns :
        status[c] = "refused"
        => /\ \A r \in CallRooms : c \notin rooms[r]
           /\ \A u \in PersonalRoomIds : c \notin userRooms[u]
           /\ currentCallRooms[c] = {}
           /\ userId[c] = NoUser
           /\ lastEvent.conn = c => (lastEvent.type = "connect" /\ outbox = {})
           /\ \A x \in outbox : x.to # c

C11_Witness ==
    \E c, d \in Conns, r \in CallRooms :
        /\ status[c] = "refused"
        /\ Handled("connect", c, 0)
        /\ d \in rooms[r]
        /\ d \in userRooms[userId[d]]

\* C12: a room is in a connection's tracked set exactly when the connection
\* is a member of that call room, and a disconnected connection is a member
\* of no room and has an empty tracked set.
C12_TrackedIffMember ==
    /\ \A c \in Conns, r \in CallRooms : r \in currentCallRooms[c] <=> c \in rooms[r]
    /\ \A c \in Conns :
          status[c] = "disconnected"
          => /\ currentCallRooms[c] = {}
             /\ \A r \in CallRooms : c \notin rooms[r]
             /\ \A u \in PersonalRoomIds : c \notin userRooms[u]

C12_Witness ==
    \E c, d \in Conns :
        /\ c # d
        /\ Handled("disconnect", c, 0)
        /\ before.tracked[c] = CallRooms
        /\ currentCallRooms[d] # {}

\* The users the appointment lookup of POST /api/video/create-room finds a
\* row for: the appointment's patient and its doctor.
ParticipantsOf(a) == {Appointments[a].patient, Appointments[a].doctor}

\* C13 (as claimed): a connection is admitted to the room of an appointment
\* only if its user is the patient or the doctor of that appointment.
C13_JoinOnlyByParticipants ==
    \A c \in Conns, a \in AppointmentIds :
        c \in rooms[RoomName(a)] => userId[c] \in ParticipantsOf(a)

\* C14: when join-call admits connection c to room r whose members were M, c
\* receives one room-joined {isInitiator, userId} and nothing else, every
\* member of M receives one user-joined {userId, userRole} of c and nothing
\* else, nobody else receives anything, and no user-joined is emitted when M
\* is empty.
C14_JoinNotifications ==
    \A c \in Conns, r \in CallRooms :
        (Handled("join-call", c, r) /\ c \notin before.rooms[r])
        => /\ {x \in outbox : x.to = c}
                = {Delivery("room-joined", c, 0, userId[c], before.rooms[r] = {}, "null")}
           /\ \A d \in before.rooms[r] :
                 {x \in outbox : x.to = d}
                   = {[Delivery("user-joined", d, r, userId[c], FALSE, "null")
                         EXCEPT !.userRole = userRole[c]]}
           /\ userRole[c] \in Roles
           /\ \A x \in outbox : x.to \in before.rooms[r] \cup {c}
           /\ before.rooms[r] = {} => DeliveredTo(c, "user-joined") = {}
           /\ before.rooms[r] = {} => \A x \in outbox : x.ev # "user-joined"

C14_Witness ==
    \E c \in Conns, r \in CallRooms :
        /\ Handled("join-call", c, r)
        /\ c \notin before.rooms[r]
        /\ Cardinality(before.rooms[r]) = 2
        /\ Cardinality(outbox) = 3
        /\ \E x \in outbox : x.ev = "user-joined" /\ x.userRole = "doctor"

\* C15: a leave-call from a member of the room removes it from the room and
\* delivers one user-left with its userId to each remaining member and none
\* to the leaver; when the leaver was the last member the room is left with
\* no members, and a join-call that finds a room with no members is
\* answered as the first join of that room.
C15_LeaveNotifiesRemaining ==
    \A c \in Conns, r \in CallRooms :
        /\ (Handled("leave-call", c, r) /\ c \in before.rooms[r])
           => /\ rooms[r] = before.rooms[r] \ {c}
              /\ outbox = {Delivery("user-left", d, r, userId[c], FALSE, "null") :
                              d \in before.rooms[r] \ {c}}
              /\ before.rooms[r] = {c} => (rooms[r] = {} /\ NumClients(r) = 0)
        /\ (Handled("join-call", c, r) /\ before.rooms[r] = {})
           => /\ rooms[r] = {c}
              /\ outbox = {Delivery("room-joined", c, 0, userId[c], TRUE, "null")}

C15_Witness ==
    \E c \in Conns, r \in CallRooms :
        /\ Handled("leave-call", c, r)
        /\ before.rooms[r] = Conns
        /\ Cardinality(outbox) = 2

\* C16: the relayed events one connection sends to one room reach every other
\* connection in the order the server received them: each is delivered in
\* the step that receives it, once, to every other member, carrying its own
\* payload, so what a connection has been delivered is an increasing run of
\* the sender's message numbers, with none twice and none held back.
C16_RelayOrderPreserved ==
    watch.kind = "order"
    => /\ \A d \in Conns :
             /\ \A i \in 1..Len(inbox[d]) : inbox[d][i] \in 1..sent
             /\ \A i, j \in 1..Len(inbox[d]) : i < j => inbox[d][i] < inbox[d][j]
       /\ inbox[watch.conn] = <<>>
       /\ (/\ lastEvent.type \in RelayEvents
           /\ lastEvent.conn = watch.conn
           /\ lastEvent.room = watch.room)
          => /\ \A d \in rooms[watch.room] \ {watch.conn} :
                   /\ Cardinality({x \in outbox : x.to = d}) = 1
                   /\ \A x \in outbox : x.payload = lastEvent.payload
                   /\ sent < MaxSent => (inbox[d] # <<>> /\ inbox[d][Len(inbox[d])] = sent)
             /\ \A x \in outbox : x.to \in rooms[watch.room] \ {watch.conn}

C16_Witness ==
    \E d \in Conns :
        /\ watch.kind = "order"
        /\ sent = MaxSent
        /\ inbox[d] = [i \in 1..MaxSent |-> i]
        /\ lastEvent.conn = watch.conn
        /\ lastEvent.type = "ice-candidate"
        /\ lastEvent.payload = "null"

\* C17: the offer, answer or candidate every recipient of a relayed signal
\* gets is the one the sender supplied, a null candidate included, under the
\* same event name, and its from is the sender's token-derived userId, not
\* the identity the client wrote into its data.
C17_SignalForwardedVerbatim ==
    \A c \in Conns, r \in CallRooms :
        (lastEvent.type \in SignalEvents /\ lastEvent.conn = c /\ lastEvent.room = r)
        => /\ \A x \in outbox :
                 /\ x.ev = lastEvent.type
                 /\ x.payload = lastEvent.payload
                 /\ x.userId = userId[c]
                 /\ x.userId \notin ClaimedIdentities(userId[c])
           /\ \A d \in rooms[r] \ {c} : \E x \in outbox : x.to = d

C17_Witness ==
    \E c, d \in Conns, r \in CallRooms :
        /\ Handled("ice-candidate", c, r)
        /\ lastEvent.payload = "null"
        /\ userId[d] # userId[c]
        /\ Delivery("ice-candidate", d, r, userId[c], FALSE, "null") \in outbox

\* C18 (as claimed): the senderId of every delivered call-message is the
\* sender's token-derived userId.
C18_SenderIdIsTokenUser ==
    \A c \in Conns :
        (lastEvent.type = "call-message" /\ lastEvent.conn = c)
        => \A x \in outbox : x.userId = userId[c]

\* C19 (as claimed): every delivered call-message carries a senderName and a
\* timestamp, added by the relay when the sender left them out.
C19_ChatStampedByRelay ==
    lastEvent.type = "call-message"
    => \A x \in outbox : x.senderName # Undefined /\ x.timestamp # Undefined

\* C20 (as claimed): no inbound event, one without a payload included, brings
\* the server down.
C20_NoEventCrashesServer == serverUp

\* C22 (as claimed): a join-call, leave-call or disconnect of one connection changes no
\* other connection's room memberships or tracked set, also when the other
\* connection belongs to the same user; and a connection whose user already
\* has another connection in the room is admitted as a member of its own.
C22_ConnectionsIndependent ==
    \A c \in Conns :
        (lastEvent.conn = c
           /\ lastEvent.type \in {"join-call", "leave-call", "disconnect", "disconnect-again"})
        => /\ \A d \in Conns \ {c} :
                 /\ \A r \in CallRooms : d \in rooms[r] <=> d \in before.rooms[r]
                 /\ \A u \in PersonalRoomIds : d \in userRooms[u] <=> d \in before.userRooms[u]
                 /\ currentCallRooms[d] = before.tracked[d]
           /\ \A r \in CallRooms :
                 (/\ Handled("join-call", c, r)
                  /\ c \notin before.rooms[r]
                  /\ \E d \in before.rooms[r] : userId[d] = userId[c])
                 => /\ rooms[r] = before.rooms[r] \cup {c}
                    /\ DeliveredTo(c, "room-joined")
                         = {Delivery("room-joined", c, 0, userId[c], FALSE, "null")}

\* C23: an ice-candidate with a null candidate from the only member of a room
\* is delivered to nobody; the server stays up, the sender stays connected,
\* and no membership or tracked set changes.
C23_NullCandidateToEmptyRoomDropped ==
    \A c \in Conns, r \in CallRooms :
        (/\ Handled("ice-candidate", c, r)
         /\ lastEvent.payload = "null"
         /\ before.rooms[r] = {c})
        => /\ outbox = {}
           /\ serverUp
           /\ status[c] = "connected"
           /\ rooms = before.rooms
           /\ currentCallRooms = before.tracked

C23_Witness ==
    \E c \in Conns, r \in CallRooms :
        /\ Handled("ice-candidate", c, r)
        /\ lastEvent.payload = "null"
        /\ before.rooms[r] = {c}
        /\ \E d \in Conns \ {c} : status[d] = "disconnected"

\* C24: a join-call from a third connection for a room with two members is
\* admitted: the room then has three members, the joiner gets room-joined
\* with isInitiator = false, both earlier members get user-joined, and
\* nothing else (no error event) is emitted.
C24_ThirdJoinAdmitted ==
    \A c \in Conns, r \in CallRooms :
        (/\ Handled("join-call", c, r)
         /\ c \notin before.rooms[r]
         /\ Cardinality(before.rooms[r]) = 2)
        => /\ rooms[r] = before.rooms[r] \cup {c}
           /\ Cardinality(rooms[r]) = 3
           /\ DeliveredTo(c, "room-joined")
                = {Delivery("room-joined", c, 0, userId[c], FALSE, "null")}
           /\ \A d \in before.rooms[r] : Cardinality(DeliveredTo(d, "user-joined")) = 1
           /\ \A x \in outbox : x.ev \in {"room-joined", "user-joined"}
           /\ Cardinality(outbox) = 3

C24_Witness ==
    \E c \in Conns, r \in CallRooms :
        /\ Handled("join-call", c, r)
        /\ c \notin before.rooms[r]
        /\ rooms[r] = Conns
        /\ Cardinality(rooms[r]) >= 3

\* C28: in the watched room at most one current member was told
\* isInitiator = true by the room-joined of its current membership.
C28_AtMostOneInitiator ==
    watch.kind = "roles"
    => Cardinality({d \in rooms[watch.room] : joinedAs[d] = "initiator"}) <= 1

C28_Witness ==
    \E c, d \in Conns :
        /\ watch.kind = "roles"
        /\ c # d
        /\ {c, d} \subseteq rooms[watch.room]
        /\ joinedAs[c] = "initiator"
        /\ joinedAs[d] = "joiner"
        /\ ~intact

\* C30 (as claimed): a user-left carrying user U is delivered for a room
\* only when no connection of U is still a member of that room.
C30_UserLeftOnlyWhenUserGone ==
    \A x \in outbox :
        x.ev = "user-left" => ~ \E d \in rooms[x.via] : userId[d] = x.userId

\* C21 (as claimed): a join request made for call k, by the VideoCall page
\* or by SocketContext.joinCall, is handled for the room named by k alone,
\* so requests for one call meet in one room and requests for different
\* calls never do.
C21_RoomDeterminedByCallId ==
    \A c \in Conns, k \in AppointmentIds :
        (lastEvent.type = "join-call" /\ lastEvent.conn = c /\ asked = k)
        => lastEvent.room = RoomName(k)

\* C27: as long as no connection has joined a room it is in, left a room it
\* is not in, disconnected while in a call room or sent call-message, the
\* build without the guards has the same call-room memberships as the build
\* with them and has emitted the same events to the same recipients for the
\* last event.
C27_VariantsAgreeOnWellBehaved ==
    (watch.kind = "variant" /\ variant3.ok)
    => /\ variant3.rooms = rooms
       /\ variant3.outbox = outbox

C27_Witness ==
    \E c, d \in Conns, r \in CallRooms :
        /\ watch.kind = "variant"
        /\ variant3.ok
        /\ c # d
        /\ Handled("leave-call", c, r)
        /\ d \in rooms[r]
        /\ outbox # {}
        /\ \E o \in Conns : status[o] = "disconnected"

\* The candidates still waiting in the queue: the loop has not reached them.
StillQueued ==
    IF ice.at = "draining"
    THEN {ice.pending[j] : j \in ice.next..Len(ice.pending)}
    ELSE {ice.pending[j] : j \in 1..Len(ice.pending)}

\* C29 (as claimed): a candidate that arrived before the remote description
\* was set is neither dropped nor added before it is set; candidates reach
\* pc.addIceCandidate in arrival order, the queued ones before any that
\* arrived later; a null candidate is never queued or added.
C29_CandidatesQueuedThenAddedInOrder ==
    /\ \A n \in 1..ice.arrived :
          n \notin ice.ignored
          => \/ n \in StillQueued
             \/ \E j \in 1..Len(ice.added) : ice.added[j] = n
    /\ ice.added # <<>> => ice.desc
    /\ \A j, k \in 1..Len(ice.added) : j < k => ice.added[j] < ice.added[k]
    /\ \A n \in ice.ignored :
          /\ n \notin StillQueued
          /\ \A j \in 1..Len(ice.added) : ice.added[j] # n

\* C26 (as claimed): a page emits call-offer only if the room-joined of its
\* current membership said isInitiator = true.
C26_OfferOnlyFromInitiator ==
    \A c \in CallParties :
        (lastEvent.type = "call-offer" /\ lastEvent.conn = c /\ page[c].mounted)
        => page[c].told = "yes"

\* Both clients are on the page and in the room, and nothing is left to
\* happen until one of them leaves: no event on its way, no listener waiting to emit.
Settled ==
    /\ \A c \in CallParties :
          /\ page[c].mounted
          /\ c \in rooms[RoomName(CallAppointment)]
          /\ clientQ[c] = <<>>
          /\ page[c].timers = 0
          /\ page[c].answers = 0

\* Each peer connection holds the description of the other client's
\* present page, and no offer waits for an answer.
Negotiated ==
    \A c, d \in CallParties :
        c # d => (page[c].remote = PageTag(d) /\ page[c].sig = "stable")

\* C25 (as claimed): every time the two clients are together in the room,
\* after a first join or after a leave and rejoin, the offer and answer
\* exchange completes: once nothing is left in flight, each peer connection
\* has applied the description of the other client's present page.
C25_ExchangeCompletes == Settled => Negotiated
====
